---- MODULE Spec2Model ----
(***************************************************************************)
(* Model of the partitioned parquet store (src/src/storage.rs) and of the  *)
(* S3 upload loop (src/src/uploader.rs).                                   *)
(*                                                                         *)
(* Time is counted in half hours since 2025-03-30T00:00:00Z, the day on    *)
(* which Europe/Vienna switches from UTC+1 to UTC+2 (at 01:00Z).           *)
(* An f64 is the record of the three fields of its IEEE-754 pattern.       *)
(***************************************************************************)
EXTENDS Integers, Sequences, FiniteSets, TLC

VARIABLES
    fs,          \* the filesystem: file name -> file state
    dirs,        \* the day directories that exist
    tracking,    \* Storage.dirty_files is Some(..)
    uploading,   \* an Uploader task was spawned
    dirty,       \* the shared HashSet behind the mutex (pending_files)
    lock,        \* owner of the tokio Mutex: "free", "store" or "uploader"
    spc,         \* position of the save_if_new call
    data,        \* argument `data` of the call in progress (or just returned)
    pending,     \* partition keys of `groups` not yet iterated
    cur,         \* file_path of the group being processed
    existing,    \* existing_batches of process_partition (normalised rows)
    newRows,     \* new_starts/new_ends/new_values/new_scraped_ats, zipped
    savedAny,    \* saved_any
    result,      \* what the last save_if_new returned: "none","true","false","err"
    calls,       \* calls of save_if_new so far; Utc::now() of the current call
    fresh,       \* calls so far that were not the repeat of the call before
    budget,      \* the calls of that kind the caller makes in this run
    inputs,      \* the kind of caller: "store", "upload", "progress" or "mirror"
    upc,         \* position of Uploader::run
    batch,       \* files_to_upload not yet attempted
    ucur,        \* file_path of the upload in progress
    body,        \* the file as ByteStream::from_path found it
    failed,      \* failed_uploads
    remote,      \* the bucket: object key -> content
    \* history variables, read only by the properties
    fs0,         \* the filesystem when the current save_if_new was called
    changed,     \* paths whose process_partition returned true in this call
    marked,      \* paths this call inserted into the dirty set
    failStep,    \* the step at which the call failed, "" if it did not
    again,       \* this call repeats the data of the call before it
    owed,        \* paths inserted by the store with no upload attempt since
    markSnap,    \* path -> file state when it was first marked since a drain
    rewritten,   \* paths replaced again while marked and not yet drained
    taken,       \* the paths of `rewritten` that the last drain took
    lateCommit,  \* the file of the upload in progress was replaced after the read
    dirs0,       \* the day directories when the current save_if_new was called
    attempted,   \* the paths of the current batch whose upload was started, in order
    retry,       \* the paths the last re-insert put back, until their batch is done
    dup,         \* those of `retry` that the store had marked again before the re-insert
    \* Storage::cleanup
    tree,        \* the directory tree below the working directory: path -> entry
    now,         \* Utc::now() of the cleanup call
    retention,   \* retention_days
    cpc,         \* position of the cleanup call: "idle", "run", "done"
    todo,        \* the calls of cleanup_recursive in progress, innermost first
    cresult,     \* what cleanup returned: "none", "ok", "err"
    \* history variables of cleanup
    tree0,       \* the tree when cleanup was called
    removed,     \* the directories remove_dir_all was called on
    entered      \* the paths cleanup_recursive was called on

vars == <<fs, dirs, tracking, uploading, dirty, lock, spc, data, pending, cur,
          existing, newRows, savedAny, result, calls, fresh, budget, inputs, upc, batch, ucur, body,
          failed, remote, fs0, changed, marked, failStep, again, owed,
          markSnap, rewritten, taken, lateCommit, dirs0, attempted, retry, dup,
          tree, now, retention, cpc, todo, cresult, tree0, removed, entered>>

\* the state of the store and of the upload loop
progVars == <<fs, dirs, tracking, uploading, dirty, lock, spc, data, pending, cur,
              existing, newRows, savedAny, result, calls, fresh, budget, inputs, upc, batch, ucur,
              body, failed, remote, fs0, changed, marked, failStep, again, owed,
              markSnap, rewritten, taken, lateCommit, dirs0, attempted, retry, dup>>

\* the state of cleanup
cleanVars == <<tree, now, retention, cpc, todo, cresult, tree0, removed, entered>>

upHist == <<attempted, retry, dup>>

upVars == <<upc, batch, ucur, body, failed, remote>>

----------------------------------------------------------------------------
(* Bounds *)

MaxData == 2        \* longest `data` slice passed to one save_if_new
MaxCalls == 1       \* calls of save_if_new in one run, each of which may be repeated once
MaxCallsUp == 2     \* calls of save_if_new in one run while the upload loop runs
MaxCallsFair == 1   \* the same, in the runs with a fair scheduler

----------------------------------------------------------------------------
(* Values *)

\* f64 values by sign, biased exponent and fraction: +0.0, -0.0, a quiet NaN
PosZero == [sign |-> 0, exp |-> 0, frac |-> 0]
NegZero == [sign |-> 1, exp |-> 0, frac |-> 0]
QNaN == [sign |-> 0, exp |-> 2047, frac |-> 1]
F64 == {PosZero, NegZero, QNaN}

\* f64::to_bits: the raw pattern, as <<sign, exponent, fraction>>
to_bits(v) == <<v.sign, v.exp, v.frac>>

IsNaN(v) == v.exp = 2047 /\ v.frac # 0

\* IEEE-754 `==` on f64: NaN equals nothing, +0.0 equals -0.0
float_eq(a, b) ==
    /\ ~IsNaN(a)
    /\ ~IsNaN(b)
    /\ \/ a = b
       \/ (a.exp = 0 /\ a.frac = 0 /\ b.exp = 0 /\ b.frac = 0)

\* Option<i64> of the scraped_at column
None == <<>>
Some(t) == <<t>>

\* interval starts: 21:30Z and 23:30Z of 2025-03-30
Starts == {43, 47}
\* (start, end) pairs the scraper delivers: the first interval ends at 23:00Z,
\* on the next Vienna day; the second is half an hour long
Keys == {<<43, 46>>, <<47, 48>>}
\* the records of a scrape: either zero for the first interval, a NaN for the second
Records == {<<43, 46, PosZero>>, <<43, 46, NegZero>>, <<47, 48, QNaN>>}
\* the records of a scrape while the upload loop runs
RecordsUp == {<<43, 46, PosZero>>, <<43, 46, NegZero>>, <<47, 48, PosZero>>}

SeqsUpTo(S, n) == UNION {[1..m -> S] : m \in 0..n}

\* the `data` of a call: up to MaxData records
Scrapes == SeqsUpTo(Records, MaxData)
\* the `data` of a call while the upload loop runs: nothing or one record
ScrapesUp == {<<>>} \cup {<<r>> : r \in RecordsUp}
\* the `data` of a call in the runs with a fair scheduler: a record for each of
\* the two days, or a new value for the first
ScrapesFair == {<<<<43, 46, PosZero>>, <<47, 48, PosZero>>>>, <<<<43, 46, NegZero>>>>}

\* the `data` of a call in the runs in which every upload succeeds in the end:
\* two values for one interval, which the repeated call appends once more, or
\* a record of the other day
ScrapesMirror == {<<<<43, 46, PosZero>>, <<43, 46, NegZero>>>>, <<<<47, 48, PosZero>>>>}

\* the `data` a caller of the given kind may pass
ScrapesOf(kind) ==
    IF kind = "store" THEN Scrapes
    ELSE IF kind = "upload" THEN ScrapesUp
    ELSE IF kind = "progress" THEN ScrapesFair
    ELSE ScrapesMirror

----------------------------------------------------------------------------
(* Partition resolution and paths *)

\* the date taken from the UTC timestamp itself
with_timezone_Utc(t) == t

\* start.with_timezone(&Vienna): UTC+1 before 01:00Z of 2025-03-30, UTC+2 after
with_timezone_Vienna(t) == IF t >= 2 THEN t + 4 ELSE t + 2

\* (year, month, day) of a local time within 2025-03-30 .. 2025-04-30
date_naive(local) ==
    LET n == 30 + (local \div 48)
    IN  IF n <= 31 THEN <<2025, 3, n>> ELSE <<2025, 4, n - 31>>

\* the key of `groups` for a record
PartitionOf(start) == date_naive(with_timezone_Vienna(start))

base_path == "data"
dataset == "ds"
NoSub == "-"

folder_path(name, subfolder) ==
    IF subfolder # NoSub THEN <<base_path, subfolder>> ELSE <<base_path, name>>

file_path(folder, ymd) == folder \o <<ymd[1], ymd[2], ymd[3], "data.parquet">>

\* Path::parent
parent(path) == SubSeq(path, 1, Len(path) - 1)

\* the rewrite done in place: the "temporary" file is the target itself
tmp_path_in_place(path) == path

\* format!("{}.tmp", file_path)
tmp_path(path) == Append(path, ".tmp")

PathOf(ymd) == file_path(folder_path(dataset, NoSub), ymd)
Paths == {PathOf(PartitionOf(s)) : s \in Starts}
Names == Paths \cup {tmp_path(p) : p \in Paths}

\* the records of `data` pushed to the group of one partition, in order
GroupOf(d, ymd) ==
    LET RECURSIVE pick(_)
        pick(s) == IF s = <<>> THEN <<>>
                   ELSE IF PartitionOf(Head(s)[1]) = ymd
                        THEN <<Head(s)>> \o pick(Tail(s))
                        ELSE pick(Tail(s))
    IN  pick(d)

GroupKeys(d) == {PartitionOf(d[i][1]) : i \in DOMAIN d}

----------------------------------------------------------------------------
(* File states *)

\* st: "absent", "empty" (created, no bytes), "partial" (written, no footer),
\*     "ok" (a complete parquet file), "corrupt" (undecodable bytes)
\* cols: number of columns of the file's schema; rows: its rows in file order
Absent == [st |-> "absent", cols |-> 0, rows |-> <<>>]
EmptyFile == [st |-> "empty", cols |-> 0, rows |-> <<>>]
Corrupt == [st |-> "corrupt", cols |-> 0, rows |-> <<>>]
Parquet(rows) == [st |-> "ok", cols |-> 4, rows |-> rows]
\* a file written before the scraped_at column existed
Legacy(rows) == [st |-> "ok", cols |-> 3, rows |-> rows]

exists(name) == fs[name].st # "absent"

\* a reader that takes any bytes for a file without rows
DecodableAlways(f) == TRUE

\* ParquetRecordBatchReaderBuilder::try_new / reader.next succeed
Decodable(f) == f.st = "ok"

\* a normalisation that stamps the rows of an old file with the current time
NormalizeBackfill(f) ==
    IF f.cols < 4
    THEN [i \in DOMAIN f.rows |-> <<f.rows[i][1], f.rows[i][2], f.rows[i][3], Some(calls)>>]
    ELSE f.rows

\* a batch with fewer than four fields gets a scraped_at column of nulls
NormalizeBatch(f) ==
    IF f.cols < 4
    THEN [i \in DOMAIN f.rows |-> <<f.rows[i][1], f.rows[i][2], f.rows[i][3], None>>]
    ELSE f.rows

\* an insert that keeps the entry a key already has (entry().or_insert)
IndexInsertKeep(latest, k, bits) ==
    [x \in DOMAIN latest \cup {k} |-> IF x \in DOMAIN latest THEN latest[x] ELSE bits]

\* latest_values.insert
IndexInsert(latest, k, bits) ==
    [x \in DOMAIN latest \cup {k} |-> IF x = k THEN bits ELSE latest[x]]

\* a read loop that keeps the first row's bits per key, not the last
RECURSIVE ReadLoopFirst(_, _)
ReadLoopFirst(latest, rows) ==
    IF rows = <<>> THEN latest
    ELSE LET k == <<Head(rows)[1], Head(rows)[2]>>
         IN  ReadLoopFirst(IF k \in DOMAIN latest THEN latest
                           ELSE IndexInsert(latest, k, to_bits(Head(rows)[3])),
                           Tail(rows))

LatestValuesFirst(rows) == ReadLoopFirst(<<>>, rows)

\* latest_values after the read loop: every row read inserts its bits
RECURSIVE ReadLoop(_, _)
ReadLoop(latest, rows) ==
    IF rows = <<>> THEN latest
    ELSE ReadLoop(IndexInsert(latest, <<Head(rows)[1], Head(rows)[2]>>,
                              to_bits(Head(rows)[3])),
                  Tail(rows))

LatestValues(rows) == ReadLoop(<<>>, rows)

\* f64::from_bits
from_bits(b) == [sign |-> b[1], exp |-> b[2], frac |-> b[3]]

\* a comparison that only asks whether the key has a row yet
is_changed_new_key(latest, k, value) == k \notin DOMAIN latest

\* a comparison of the values with `!=` on f64 instead of on their bits
is_changed_numeric(latest, k, value) ==
    IF k \in DOMAIN latest THEN ~float_eq(from_bits(latest[k]), value) ELSE TRUE

\* is_changed of one incoming record
is_changed(latest, k, value) ==
    IF k \in DOMAIN latest THEN latest[k] # to_bits(value) ELSE TRUE

\* a loop over `data` that never updates latest_values
RECURSIVE MergeLoopNoUpdate(_, _, _)
MergeLoopNoUpdate(latest, group, t) ==
    IF group = <<>> THEN <<>>
    ELSE LET r == Head(group)
         IN  IF is_changed(latest, <<r[1], r[2]>>, r[3])
             THEN <<<<r[1], r[2], r[3], Some(t)>>>>
                  \o MergeLoopNoUpdate(latest, Tail(group), t)
             ELSE MergeLoopNoUpdate(latest, Tail(group), t)

\* the loop over `data` of process_partition: the rows pushed to new_*
RECURSIVE MergeLoop(_, _, _)
MergeLoop(latest, group, t) ==
    IF group = <<>> THEN <<>>
    ELSE LET r == Head(group)
             k == <<r[1], r[2]>>
         IN  IF is_changed(latest, k, r[3])
             THEN <<<<r[1], r[2], r[3], Some(t)>>>>
                  \o MergeLoop(IndexInsert(latest, k, to_bits(r[3])), Tail(group), t)
             ELSE MergeLoop(latest, Tail(group), t)

----------------------------------------------------------------------------
(* Object keys *)

\* path.strip_prefix("data/") and format!("data/{}", relative_path)
s3_key(path) == <<"data">> \o Tail(path)

strip_prefix_ok(path) == path # <<>> /\ Head(path) = "data"

----------------------------------------------------------------------------
(* The directory tree cleanup walks *)

MaxRetention == 1   \* largest retention_days passed to cleanup

\* A file name is <<prefix, rest>>: the text up to and including a '=' (or "")
\* and the characters after it; a name without '=' keeps its text in one piece
Plain(text) == <<"", <<text>>>>

Digits == <<"0", "1", "2", "3", "4", "5", "6", "7", "8", "9">>

\* format!("{:02}", n)
Fmt02(n) == <<Digits[(n \div 10) + 1], Digits[(n % 10) + 1]>>

YearName == <<"year=", <<"2", "0", "2", "5">>>>
MonthName(m) == <<"month=", Fmt02(m)>>
DayName(d) == <<"day=", Fmt02(d)>>

IsDigit(c) == \E i \in DOMAIN Digits : Digits[i] = c
DigitVal(c) == (CHOOSE i \in DOMAIN Digits : Digits[i] = c) - 1

\* str::parse::<i32> of a string of decimal digits
RECURSIVE ParseDigits(_, _)
ParseDigits(acc, txt) ==
    IF txt = <<>> THEN acc
    ELSE ParseDigits(acc * 10 + DigitVal(Head(txt)), Tail(txt))

\* file_name, strip_prefix(prefix), parse().ok()
extract_date_part(path, prefix) ==
    IF path = <<>> THEN None
    ELSE LET name == path[Len(path)]
         IN  IF name[1] = prefix /\ name[2] # <<>> /\ \A i \in DOMAIN name[2] : IsDigit(name[2][i])
             THEN Some(ParseDigits(0, name[2]))
             ELSE None

\* the days of a month of the proleptic Gregorian calendar
days_in_month(y, m) ==
    IF m \in {4, 6, 9, 11} THEN 30
    ELSE IF m = 2 THEN (IF y % 4 = 0 /\ (y % 100 # 0 \/ y % 400 = 0) THEN 29 ELSE 28)
    ELSE 31

\* Vienna.with_ymd_and_hms(y, m, d, 0, 0, 0).single(), then date_naive():
\* midnight exists once on every date of the calendar
with_ymd_and_hms(y, m, d) ==
    IF m \in 1..12 /\ d >= 1 /\ d <= days_in_month(y, m) THEN Some(<<y, m, d>>) ELSE None

\* NaiveDate `<`
date_lt(a, b) ==
    \/ a[1] < b[1]
    \/ a[1] = b[1] /\ a[2] < b[2]
    \/ a[1] = b[1] /\ a[2] = b[2] /\ a[3] < b[3]

\* a date check that does not look at the name of the grandparent
day_date_no_year(path) ==
    LET day_val == extract_date_part(path, "day=")
        month_val == extract_date_part(parent(path), "month=")
    IN  IF day_val = None \/ month_val = None THEN None
        ELSE with_ymd_and_hms(2025, month_val[1], day_val[1])

\* the nested `if let` of cleanup_recursive: the date a directory stands for
day_date(path) ==
    LET day_val == extract_date_part(path, "day=")
    IN  IF day_val = None \/ Len(path) < 2 THEN None
        ELSE LET month_val == extract_date_part(parent(path), "month=")
             IN  IF month_val = None \/ Len(path) < 3 THEN None
                 ELSE LET year_val == extract_date_part(parent(parent(path)), "year=")
                      IN  IF year_val = None THEN None
                          ELSE with_ymd_and_hms(year_val[1], month_val[1], day_val[1])

\* Utc::now() - Duration::days(retention_days), in half hours
cutoff_of(t, n) == t - 48 * n

\* cutoff.with_timezone(&Vienna).date_naive()
cutoff_date(t, n) == date_naive(with_timezone_Vienna(cutoff_of(t, n)))

\* the paths of the tree
Root == <<Plain(base_path)>>
DsDir == Append(Root, Plain(dataset))
YearDir == Append(DsDir, YearName)
MarchDir == Append(YearDir, MonthName(3))
\* the March days that may have a partition
Days == (29 - MaxRetention)..31
DayDir(d) == Append(MarchDir, DayName(d))
DataFile(dir) == Append(dir, Plain("data.parquet"))
\* a directory whose day does not parse
BadDayDir == Append(MarchDir, <<"day=", <<"x", "x">>>>)
\* a day below a month that is not below a year
ArchiveDir == Append(DsDir, Plain("archive"))
ArchiveMonth == Append(ArchiveDir, MonthName(3))
ArchiveDay == Append(ArchiveMonth, DayName(28))
\* a day the calendar does not have
FebDir == Append(YearDir, MonthName(2))
FebDay == Append(FebDir, DayName(30))
\* an empty directory
EmptyDir == Append(DsDir, Plain("empty"))

OtherDirs == {BadDayDir, ArchiveDir, ArchiveMonth, ArchiveDay, FebDir, FebDay, EmptyDir}
OtherFiles == {DataFile(BadDayDir), DataFile(ArchiveDay), DataFile(FebDay)}
Nodes ==
    {Root, DsDir, YearDir, MarchDir} \cup OtherDirs \cup OtherFiles
        \cup {DayDir(d) : d \in Days} \cup {DataFile(DayDir(d)) : d \in Days}

\* path is dir or below it
Under(dir, path) == Len(path) >= Len(dir) /\ SubSeq(path, 1, Len(dir)) = dir

\* the entries of a directory
ChildrenIn(t, dir) ==
    {n \in Nodes : Len(n) = Len(dir) + 1 /\ Under(dir, n) /\ t[n] # "absent"}

\* the tree with the partitions of the days of `present`
TreeWith(present) ==
    [n \in Nodes |->
        IF n \in {Root, DsDir, YearDir, MarchDir} \cup OtherDirs THEN "dir"
        ELSE IF n \in OtherFiles THEN "bytes"
        ELSE IF \E d \in present : n = DayDir(d) THEN "dir"
        ELSE IF \E d \in present : n = DataFile(DayDir(d)) THEN "bytes"
        ELSE "absent"]

\* the instants cleanup is called at: 21:30Z, 22:30Z and 23:30Z of 2025-03-30
Nows == {43, 45, 47}

\* no cleanup is running and there is nothing to walk
CleanIdle ==
    /\ tree = <<>>
    /\ now = 0
    /\ retention = 0
    /\ cpc = "idle"
    /\ todo = <<>>
    /\ cresult = "none"
    /\ tree0 = tree
    /\ removed = {}
    /\ entered = {}

----------------------------------------------------------------------------
(* Initial states *)

\* the partition files found at start: none; one written before scraped_at
\* existed, with the history of two values of an interval; one whose bytes do
\* not decode
InitialFs ==
    LET p == PathOf(PartitionOf(43))
        none == [n \in Names |-> Absent]
    IN  {none,
         [none EXCEPT ![p] = Legacy(<<<<43, 46, NegZero>>, <<43, 46, PosZero>>>>)],
         [none EXCEPT ![p] = Corrupt]}

InitCommon ==
    /\ fs \in InitialFs
    /\ dirs = {parent(p) : p \in {q \in Paths : fs[q] # Absent}}
    /\ dirty = {}
    /\ lock = "free"
    /\ spc = "idle"
    /\ data = <<>>
    /\ pending = {}
    /\ cur = <<>>
    /\ existing = <<>>
    /\ newRows = <<>>
    /\ savedAny = FALSE
    /\ result = "none"
    /\ calls = 0
    /\ fresh = 0
    /\ upc = "sleep"
    /\ batch = <<>>
    /\ ucur = <<>>
    /\ body = Absent
    /\ failed = <<>>
    /\ remote = [k \in {s3_key(p) : p \in Paths} |-> Absent]
    /\ fs0 = fs
    /\ changed = {}
    /\ marked = {}
    /\ failStep = ""
    /\ again = FALSE
    /\ owed = {}
    /\ markSnap = [p \in Paths |-> Absent]
    /\ rewritten = {}
    /\ taken = {}
    /\ lateCommit = FALSE
    /\ dirs0 = dirs
    /\ attempted = <<>>
    /\ retry = {}
    /\ dup = {}

\* a store on its own, with or without a dirty set
Init ==
    /\ InitCommon
    /\ CleanIdle
    /\ tracking \in BOOLEAN
    /\ uploading = FALSE
    /\ budget = MaxCalls
    /\ inputs = "store"

----------------------------------------------------------------------------
(* Storage::save_if_new and Storage::process_partition *)

\* what every step of a call leaves alone
CallFrame == UNCHANGED <<tracking, uploading, data, calls, fresh, budget, inputs, upVars, again, fs0, dirs0,
                         upHist, cleanVars>>

\* save_if_new is called: the records are grouped by local date
Call(d, rep) ==
    /\ calls' = calls + 1
    /\ data' = d
    /\ pending' = GroupKeys(d)
    /\ again' = rep
    /\ spc' = "loop"
    /\ savedAny' = FALSE
    /\ result' = "none"
    /\ fs0' = fs
    /\ dirs0' = dirs
    /\ changed' = {}
    /\ marked' = {}
    /\ failStep' = ""
    /\ cur' = <<>>
    /\ existing' = <<>>
    /\ newRows' = <<>>
    /\ UNCHANGED <<fs, dirs, tracking, uploading, budget, inputs, dirty, lock, upVars, owed,
                   markSnap, rewritten, taken, lateCommit, upHist, cleanVars>>

SaveBegin ==
    /\ spc = "idle"
    /\ fresh < budget
    /\ fresh' = fresh + 1
    /\ \E d \in ScrapesOf(inputs) : Call(d, FALSE)

\* the caller repeats the call it just made, with the same `data`
SaveAgain ==
    /\ spc = "ret"
    /\ result \in {"true", "false"}
    /\ ~again
    /\ UNCHANGED fresh
    /\ Call(data, TRUE)

\* the caller takes the result
SaveReturn ==
    /\ spc = "ret"
    /\ spc' = "idle"
    /\ data' = <<>>
    /\ result' = "none"
    /\ fs0' = fs
    /\ dirs0' = dirs
    /\ changed' = {}
    /\ marked' = {}
    /\ failStep' = ""
    /\ again' = FALSE
    /\ cur' = <<>>
    /\ existing' = <<>>
    /\ newRows' = <<>>
    /\ savedAny' = FALSE
    /\ UNCHANGED <<fs, dirs, tracking, uploading, budget, inputs, dirty, lock, pending, calls,
                   fresh, upVars, owed, markSnap, rewritten, taken, lateCommit, upHist,
                   cleanVars>>

\* the next entry of `groups`, in the HashMap's arbitrary order
NextGroup ==
    /\ spc = "loop"
    /\ \E g \in pending :
          /\ pending' = pending \ {g}
          /\ cur' = file_path(folder_path(dataset, NoSub), g)
    /\ spc' = "mkdir"
    /\ CallFrame
    /\ UNCHANGED <<fs, dirs, dirty, lock, existing, newRows, savedAny, result,
                   changed, marked, failStep, owed, markSnap, rewritten, taken, lateCommit>>

\* Ok(saved_any)
SaveOk ==
    /\ spc = "loop"
    /\ pending = {}
    /\ spc' = "ret"
    /\ result' = IF savedAny THEN "true" ELSE "false"
    /\ CallFrame
    /\ UNCHANGED <<fs, dirs, dirty, lock, pending, cur, existing, newRows,
                   savedAny, changed, marked, failStep, owed, markSnap, rewritten, taken, lateCommit>>

\* an error that is swallowed: the loop goes on to the next group
FailContinue(step) ==
    /\ spc' = "loop"
    /\ failStep' = step
    /\ CallFrame
    /\ UNCHANGED <<dirty, lock, pending, cur, existing, newRows, savedAny, result,
                   changed, marked, owed, markSnap, rewritten, taken, lateCommit>>

\* a `?` propagates an error out of process_partition and save_if_new
Fail(step) ==
    /\ spc' = "ret"
    /\ result' = "err"
    /\ failStep' = step
    /\ CallFrame
    /\ UNCHANGED <<dirty, lock, pending, cur, existing, newRows, savedAny,
                   changed, marked, owed, markSnap, rewritten, taken, lateCommit>>

\* a step of process_partition that succeeds and goes on to `next`
Step(next) ==
    /\ spc' = next
    /\ CallFrame
    /\ UNCHANGED <<dirty, lock, pending, cur, savedAny, result, changed, marked,
                   failStep, owed, markSnap, rewritten, taken, lateCommit>>

\* std::fs::create_dir_all(parent)
CreateDirAll ==
    /\ spc = "mkdir"
    /\ \/ /\ dirs' = dirs \cup {parent(cur)}
          /\ Step("read")
          /\ UNCHANGED <<fs, existing, newRows>>
       \/ /\ Fail("mkdir")
          /\ UNCHANGED <<fs, dirs>>

\* a merge that rewrites the file whether or not a record was new
AfterMergeAlways(new) == "create"

\* if new_starts.is_empty() { return Ok(false) }
AfterMerge(new) == IF new = <<>> THEN "loop" ELSE "create"

\* the read of the existing file, the loop over `data`, and the early return
ReadAndMerge ==
    /\ spc = "read"
    /\ \/ /\ exists(cur) => Decodable(fs[cur])
          /\ LET raw == IF exists(cur) THEN fs[cur].rows ELSE <<>>
                 ex == IF exists(cur) THEN NormalizeBatch(fs[cur]) ELSE <<>>
                 new == MergeLoop(LatestValues(raw),
                                  GroupOf(data, SubSeq(cur, 3, 5)), calls)
             IN  /\ existing' = ex
                 /\ newRows' = new
                 /\ Step(AfterMerge(new))
          /\ UNCHANGED <<fs, dirs>>
       \/ /\ exists(cur)
          /\ Fail("read")
          /\ UNCHANGED <<fs, dirs>>

\* File::create(&tmp_path) and ArrowWriter::try_new
CreateTmp ==
    /\ spc = "create"
    /\ \/ /\ fs' = [fs EXCEPT ![tmp_path(cur)] = EmptyFile]
          /\ Step("write")
          /\ UNCHANGED <<dirs, existing, newRows>>
       \/ /\ Fail("create")
          /\ UNCHANGED <<fs, dirs>>

\* writer.write of the existing batches and of the new batch
WriteTmp ==
    /\ spc = "write"
    /\ \/ /\ fs' = [fs EXCEPT ![tmp_path(cur)] =
                       [st |-> "partial", cols |-> 4, rows |-> existing \o newRows]]
          /\ Step("close")
          /\ UNCHANGED <<dirs, existing, newRows>>
       \/ /\ fs' = [fs EXCEPT ![tmp_path(cur)] =
                       [st |-> "partial", cols |-> 4, rows |-> existing]]
          /\ Fail("write")
          /\ UNCHANGED dirs

\* writer.close
CloseTmp ==
    /\ spc = "close"
    /\ \/ /\ fs' = [fs EXCEPT ![tmp_path(cur)].st = "ok"]
          /\ Step("rename")
          /\ UNCHANGED <<dirs, existing, newRows>>
       \/ /\ Fail("close")
          /\ UNCHANGED <<fs, dirs>>

\* a store that never inserts
AfterCommitNever(some) == "loop"

\* an insert that does not look at the Option
AfterCommitAlways(some) == "lock"

\* if let Some(dirty) = &self.dirty_files: lock and insert, else the next group
AfterCommit(some) == IF some THEN "lock" ELSE "loop"

\* std::fs::rename(&tmp_path, path), then Ok(true) and saved_any = true
Rename ==
    /\ spc = "rename"
    /\ \/ /\ fs' = [n \in Names |-> IF n = cur THEN fs[tmp_path(cur)]
                                    ELSE IF n = tmp_path(cur) THEN Absent
                                    ELSE fs[n]]
          /\ savedAny' = TRUE
          /\ changed' = changed \cup {cur}
          /\ lateCommit' = (lateCommit \/ (upc = "put" /\ ucur = cur))
          /\ rewritten' = IF cur \in dirty THEN rewritten \cup {cur} ELSE rewritten
          /\ spc' = AfterCommit(tracking)
          /\ CallFrame
          /\ UNCHANGED <<dirs, dirty, lock, pending, cur, existing, newRows,
                         result, marked, failStep, owed, markSnap, taken>>
       \/ /\ Fail("rename")
          /\ UNCHANGED <<fs, dirs>>

\* dirty.lock().await
StoreLock ==
    /\ spc = "lock"
    /\ lock = "free"
    /\ lock' = "store"
    /\ spc' = "insert"
    /\ CallFrame
    /\ UNCHANGED <<fs, dirs, dirty, pending, cur, existing, newRows, savedAny,
                   result, changed, marked, failStep, owed, markSnap, rewritten, taken, lateCommit>>

\* .insert(file_path), and the guard is dropped
StoreInsert ==
    /\ spc = "insert"
    /\ dirty' = dirty \cup {cur}
    /\ lock' = "free"
    /\ spc' = "loop"
    /\ marked' = marked \cup {cur}
    /\ owed' = owed \cup {cur}
    /\ markSnap' = IF cur \in dirty THEN markSnap ELSE [markSnap EXCEPT ![cur] = fs[cur]]
    /\ rewritten' = IF cur \in dirty THEN rewritten ELSE rewritten \ {cur}
    /\ UNCHANGED taken
    /\ CallFrame
    /\ UNCHANGED <<fs, dirs, pending, cur, existing, newRows, savedAny, result,
                   changed, failStep, lateCommit>>

StoreNext ==
    \/ SaveBegin
    \/ SaveAgain
    \/ SaveReturn
    \/ NextGroup
    \/ SaveOk
    \/ CreateDirAll
    \/ ReadAndMerge
    \/ CreateTmp
    \/ WriteTmp
    \/ CloseTmp
    \/ Rename
    \/ StoreLock
    \/ StoreInsert

Next == StoreNext

Spec == Init /\ [][Next]_vars

----------------------------------------------------------------------------
(* Uploader::run and Uploader::upload_file *)

UpFrame == UNCHANGED <<fs, dirs, tracking, uploading, spc, data, pending, cur,
                       existing, newRows, savedAny, result, calls, fresh, budget, inputs, fs0, changed,
                       marked, failStep, again, markSnap, dirs0, cleanVars>>

\* the elements of a Vec
Elems(v) == {v[i] : i \in DOMAIN v}

\* the failed paths are logged and dropped
ReinsertNone(set, fl) == set

\* the failed paths replace the set instead of being inserted into it
ReinsertReplace(set, fl) == Elems(fl)

\* for file_path in failed_uploads { pending.insert(file_path) }
ReinsertInto(set, fl) == set \cup Elems(fl)

\* a drain that empties the set and yields one path of it only
OrdersDropping(S) == IF S = {} THEN {<<>>} ELSE {<<x>> : x \in S}

\* a drain that yields one of the paths a second time
OrdersRepeating(S) == {v \in [1..(Cardinality(S) + 1) -> S] : Elems(v) = S}

\* the orders in which HashSet::drain can yield a set
Orders(S) == {v \in [1..Cardinality(S) -> S] : Elems(v) = S}

\* the sleep ends and pending_files.lock().await returns
UploaderLock ==
    /\ upc = "sleep"
    /\ lock = "free"
    /\ lock' = "uploader"
    /\ upc' = "drain"
    /\ UpFrame
    /\ UNCHANGED <<dirty, batch, ucur, body, failed, remote, owed, rewritten,
                   taken, lateCommit, upHist>>

\* a guard that is kept after the block it was taken in
KeepGuard(owner) == owner

\* the MutexGuard goes out of scope
DropGuard(owner) == "free"

\* pending.drain().collect(), the guard is dropped; an empty batch sleeps again
Drain ==
    /\ upc = "drain"
    /\ \E v \in Orders(dirty) : batch' = v
    /\ dirty' = {}
    /\ lock' = DropGuard(lock)
    /\ failed' = <<>>
    /\ upc' = IF dirty = {} THEN "sleep" ELSE "next"
    /\ UpFrame
    /\ taken' = rewritten
    /\ rewritten' = {}
    /\ attempted' = <<>>
    /\ UNCHANGED <<ucur, body, remote, owed, lateCommit, retry, dup>>

\* the next file_path of files_to_upload
NextFile ==
    /\ upc = "next"
    /\ batch # <<>>
    /\ ucur' = Head(batch)
    /\ batch' = Tail(batch)
    /\ owed' = owed \ {Head(batch)}
    /\ upc' = "read"
    /\ UpFrame
    /\ attempted' = Append(attempted, Head(batch))
    /\ UNCHANGED <<dirty, lock, body, failed, remote, rewritten, taken, lateCommit,
                   retry, dup>>

\* a body kept from the time the path was marked
ReadBodyAtMark(path) == markSnap[path]

\* what ByteStream::from_path(path) yields
ReadBody(path) == fs[path]

\* upload_file up to the ByteStream: the key is derived and the file is read
ReadFile ==
    /\ upc = "read"
    /\ \/ /\ strip_prefix_ok(ucur)
          /\ exists(ucur)
          /\ body' = ReadBody(ucur)
          /\ lateCommit' = FALSE
          /\ upc' = "put"
          /\ UNCHANGED <<failed, taken>>
       \/ /\ failed' = Append(failed, ucur)
          /\ upc' = "next"
          /\ taken' = taken \ {ucur}
          /\ UNCHANGED <<body, lateCommit>>
    /\ UpFrame
    /\ UNCHANGED <<dirty, lock, batch, ucur, remote, owed, rewritten, upHist>>

\* what the body yields when the request is sent: from_path measured the
\* length of the file and kept the path; the file is opened when the body is
\* first polled, and no more than the measured length is read from it
SendBody(measured, file) ==
    IF Len(file.rows) = Len(measured.rows) THEN file
    ELSE [st |-> "partial", cols |-> file.cols,
          rows |-> SubSeq(file.rows, 1, Len(measured.rows))]

\* put_object().send().await: Ok stores what the body yields, Err (the request
\* failed, the file could not be opened, or it ended before the measured
\* length) is pushed to failed_uploads
PutObject ==
    /\ upc = "put"
    /\ \/ /\ exists(ucur)
          /\ Len(fs[ucur].rows) >= Len(body.rows)
          /\ remote' = [remote EXCEPT ![s3_key(ucur)] = SendBody(body, fs[ucur])]
          /\ UNCHANGED failed
       \/ /\ failed' = Append(failed, ucur)
          /\ UNCHANGED remote
    /\ upc' = "next"
    /\ body' = Absent
    /\ lateCommit' = FALSE
    /\ taken' = taken \ {ucur}
    /\ UpFrame
    /\ UNCHANGED <<dirty, lock, batch, ucur, owed, rewritten, upHist>>

\* the batch is done and nothing failed: back to the sleep
BatchDone ==
    /\ upc = "next"
    /\ batch = <<>>
    /\ failed = <<>>
    /\ upc' = "sleep"
    /\ ucur' = <<>>
    /\ attempted' = <<>>
    /\ retry' = {}
    /\ dup' = {}
    /\ UpFrame
    /\ UNCHANGED <<dirty, lock, batch, body, failed, remote, owed, rewritten,
                   taken, lateCommit>>

\* the batch is done with failures: pending_files.lock().await
RetryLock ==
    /\ upc = "next"
    /\ batch = <<>>
    /\ failed # <<>>
    /\ lock = "free"
    /\ lock' = "uploader"
    /\ upc' = "reinsert"
    /\ ucur' = <<>>
    /\ UpFrame
    /\ UNCHANGED <<dirty, batch, body, failed, remote, owed, rewritten, taken,
                   lateCommit, upHist>>

\* every failed path is inserted again, the guard is dropped
Reinsert ==
    /\ upc = "reinsert"
    /\ dirty' = ReinsertInto(dirty, failed)
    /\ failed' = <<>>
    /\ lock' = "free"
    /\ upc' = "sleep"
    /\ attempted' = <<>>
    /\ retry' = Elems(failed)
    /\ dup' = dirty \cap Elems(failed)
    /\ UpFrame
    /\ UNCHANGED <<batch, ucur, body, remote, owed, rewritten, taken, lateCommit>>

UploaderNext ==
    \/ UploaderLock
    \/ Drain
    \/ NextFile
    \/ ReadFile
    \/ PutObject
    \/ BatchDone
    \/ RetryLock
    \/ Reinsert

\* the store and the spawned upload loop share the dirty set
InitUpWith(n, kind) ==
    /\ InitCommon
    /\ CleanIdle
    /\ fs = [x \in Names |-> Absent]
    /\ tracking = TRUE
    /\ uploading = TRUE
    /\ budget = n
    /\ inputs = kind

InitUp == InitUpWith(MaxCallsUp, "upload")

InitUpFair == InitUpWith(MaxCallsFair, "progress")

NextUp == StoreNext \/ UploaderNext

SpecUp == InitUp /\ [][NextUp]_vars

\* the upload task is always scheduled again (the sleep ends, each await
\* returns); the store's insert completes once it has the guard; tokio's Mutex
\* hands the lock over in the order of the requests, so a waiting store gets it
SpecUpFair ==
    /\ InitUpFair
    /\ [][NextUp]_vars
    /\ WF_vars(UploaderNext)
    /\ WF_vars(StoreInsert)
    /\ SF_vars(StoreLock)

InitUpMirror == InitUpWith(MaxCallsFair, "mirror")

\* upload_file of p gets past ByteStream::from_path
ReadOk(p) == ReadFile /\ ucur = p /\ upc' = "put"

\* put_object of p returns Ok
PutOk(p) == PutObject /\ ucur = p /\ failed' = failed

\* the runs of SpecUpFair in which no path fails for ever: a path whose upload
\* is tried again and again is read, and is accepted by the bucket, in the end
SpecUpMirror ==
    /\ InitUpMirror
    /\ [][NextUp]_vars
    /\ WF_vars(UploaderNext)
    /\ WF_vars(StoreInsert)
    /\ SF_vars(StoreLock)
    /\ \A p \in Paths : SF_vars(ReadOk(p)) /\ SF_vars(PutOk(p))

----------------------------------------------------------------------------
(* Storage::cleanup and Storage::cleanup_recursive *)

\* a store with a tree of partitions and other directories, about to clean up
InitClean ==
    /\ InitCommon
    /\ fs = [n \in Names |-> Absent]
    /\ tracking = FALSE
    /\ uploading = FALSE
    /\ budget = 0
    /\ inputs = "store"
    /\ \E present \in SUBSET Days : tree = TreeWith(present)
    /\ now \in Nows
    /\ retention \in 0..MaxRetention
    /\ cpc = "idle"
    /\ todo = <<>>
    /\ cresult = "none"
    /\ tree0 = tree
    /\ removed = {}
    /\ entered = {}

\* a call of cleanup_recursive that has not looked at its path yet, and one
\* that iterates over the entries `rest` of its directory
Enter(path) == [path |-> path, at |-> "enter", rest |-> {}]
Iterate(path, rest) == [path |-> path, at |-> "iter", rest |-> rest]

CleanFrame == UNCHANGED <<progVars, now, retention, tree0>>

\* cleanup: the cutoff is computed and, if the base exists, the walk starts
CleanupBegin ==
    /\ cpc = "idle"
    /\ cresult = "none"
    /\ IF tree[Root] # "absent"
       THEN /\ todo' = <<Enter(Root)>>
            /\ entered' = {Root}
            /\ cpc' = "run"
            /\ UNCHANGED cresult
       ELSE /\ cpc' = "done"
            /\ cresult' = "ok"
            /\ UNCHANGED <<todo, entered>>
    /\ CleanFrame
    /\ UNCHANGED <<tree, removed>>

\* a `?` ends every call in progress
CleanFail ==
    /\ todo' = <<>>
    /\ cpc' = "done"
    /\ cresult' = "err"

\* cleanup_recursive(path) up to its loop: a path that is no directory returns;
\* a day directory dated before the cutoff is removed with all below it; any
\* other directory is read
CleanEnter ==
    /\ cpc = "run"
    /\ todo # <<>>
    /\ Head(todo).at = "enter"
    /\ LET path == Head(todo).path
           date == day_date(path)
       IN  IF tree[path] # "dir"
           THEN /\ todo' = Tail(todo)
                /\ UNCHANGED <<tree, removed, cpc, cresult>>
           ELSE IF date # None /\ date_lt(date[1], cutoff_date(now, retention))
           THEN \/ /\ tree' = [n \in Nodes |-> IF Under(path, n) THEN "absent" ELSE tree[n]]
                   /\ removed' = removed \cup {path}
                   /\ todo' = Tail(todo)
                   /\ UNCHANGED <<cpc, cresult>>
                \/ /\ \E gone \in SUBSET ChildrenIn(tree, path) :
                          tree' = [n \in Nodes |-> IF \E g \in gone : Under(g, n)
                                                   THEN "absent" ELSE tree[n]]
                   /\ CleanFail
                   /\ UNCHANGED removed
           ELSE \/ /\ todo' = <<Iterate(path, ChildrenIn(tree, path))>> \o Tail(todo)
                   /\ UNCHANGED <<tree, removed, cpc, cresult>>
                \/ /\ CleanFail
                   /\ UNCHANGED <<tree, removed>>
    /\ CleanFrame
    /\ UNCHANGED entered

\* the loop over read_dir: the next entry, in the order the directory gives
CleanDescend ==
    /\ cpc = "run"
    /\ todo # <<>>
    /\ Head(todo).at = "iter"
    /\ \E c \in Head(todo).rest :
          /\ todo' = <<Enter(c), Iterate(Head(todo).path, Head(todo).rest \ {c})>> \o Tail(todo)
          /\ entered' = entered \cup {c}
    /\ CleanFrame
    /\ UNCHANGED <<tree, removed, cpc, cresult>>

\* after the loop: let _ = remove_dir(path), which removes an empty directory
CleanRemoveEmpty ==
    /\ cpc = "run"
    /\ todo # <<>>
    /\ Head(todo).at = "iter"
    /\ Head(todo).rest = {}
    /\ LET path == Head(todo).path
       IN  tree' = IF ChildrenIn(tree, path) = {} THEN [tree EXCEPT ![path] = "absent"]
                   ELSE tree
    /\ todo' = Tail(todo)
    /\ CleanFrame
    /\ UNCHANGED <<removed, entered, cpc, cresult>>

\* the outermost cleanup_recursive returned: Ok(())
CleanupOk ==
    /\ cpc = "run"
    /\ todo = <<>>
    /\ cpc' = "done"
    /\ cresult' = "ok"
    /\ CleanFrame
    /\ UNCHANGED <<tree, todo, removed, entered>>

NextClean ==
    \/ CleanupBegin
    \/ CleanEnter
    \/ CleanDescend
    \/ CleanRemoveEmpty
    \/ CleanupOk

SpecClean == InitClean /\ [][NextClean]_vars

----------------------------------------------------------------------------
(* The store, the upload loop and cleanup on the same partitions *)

\* the instants of the runs with cleanup: 22:30Z of 2025-03-30 and of 2025-03-31
NowsUp == {45, 93}

\* the day directory of a partition as cleanup_recursive meets it:
\* {base}/{name}/year={}/month={:02}/day={:02}, the year being 2025
PartitionDir(ymd) == Append(Append(Append(DsDir, YearName), MonthName(ymd[2])), DayName(ymd[3]))

\* the day directory a file of the store lies in
dir_of(name) == SubSeq(name, 1, 5)

\* the files in the day directories ds
FilesIn(ds) == {n \in Names : exists(n) /\ dir_of(n) \in ds}

\* cleanup_recursive finds the day directory dated before the cutoff
Expired(dir) ==
    LET date == day_date(PartitionDir(SubSeq(dir, 3, 5)))
    IN  date # None /\ date_lt(date[1], cutoff_date(now, retention))

\* the store with its upload loop, in a process that also calls cleanup
InitAll ==
    /\ InitCommon
    /\ fs = [x \in Names |-> Absent]
    /\ tracking = TRUE
    /\ uploading = TRUE
    /\ budget = MaxCallsFair
    /\ inputs = "mirror"
    /\ tree = <<>>
    /\ now \in NowsUp
    /\ retention \in 0..MaxRetention
    /\ cpc = "idle"
    /\ todo = <<>>
    /\ cresult = "none"
    /\ tree0 = tree
    /\ removed = {}
    /\ entered = {}

\* cleanup, called by the caller of save_if_new between two saves: every day
\* directory dated before the cutoff is removed with its files, and so is
\* every other day directory that is empty; or the walk ends with an error
\* after some of them, one expired directory having lost some of its files
Cleanup ==
    /\ spc = "idle"
    /\ LET old == {d \in dirs : Expired(d)}
           empty == {d \in dirs \ old : FilesIn({d}) = {}}
       IN  \/ /\ fs' = [n \in Names |-> IF n \in FilesIn(old) THEN Absent ELSE fs[n]]
              /\ dirs' = dirs \ (old \cup empty)
              /\ cresult' = "ok"
           \/ \E done \in SUBSET (old \cup empty) :
              \E f \in SUBSET (old \ done) :
              \E part \in SUBSET FilesIn(f) :
                 /\ Cardinality(f) <= 1
                 /\ fs' = [n \in Names |-> IF n \in FilesIn(done) \cup part THEN Absent
                                            ELSE fs[n]]
                 /\ dirs' = dirs \ done
                 /\ cresult' = "err"
    /\ fs0' = fs'
    /\ dirs0' = dirs'
    /\ UNCHANGED <<tracking, uploading, dirty, lock, spc, data, pending, cur, existing,
                   newRows, savedAny, result, calls, fresh, budget, inputs, upVars,
                   changed, marked, failStep, again, owed, markSnap, rewritten, taken,
                   lateCommit, upHist, tree, now, retention, cpc, todo, tree0, removed,
                   entered>>

NextAll == NextUp \/ Cleanup

SpecAll == InitAll /\ [][NextAll]_vars

----------------------------------------------------------------------------
(* Properties of save_if_new and process_partition, checked under Spec *)

KeyOf(r) == <<r[1], r[2]>>

\* the rows of a file as the schema of the store reads them
LogicalRows(f) ==
    [i \in DOMAIN f.rows |->
        <<f.rows[i][1], f.rows[i][2], f.rows[i][3],
          IF f.cols < 4 THEN None ELSE f.rows[i][4]>>]

\* the rows a path holds now beyond those it held when the call began
Added(p) == SubSeq(fs[p].rows, Len(fs0[p].rows) + 1, Len(fs[p].rows))

\* the values of the rows (or records) of a sequence that carry key k, in order
RECURSIVE ValuesFor(_, _)
ValuesFor(rows, k) ==
    IF rows = <<>> THEN <<>>
    ELSE IF KeyOf(Head(rows)) = k
         THEN <<Head(rows)[3]>> \o ValuesFor(Tail(rows), k)
         ELSE ValuesFor(Tail(rows), k)

Last(v) == v[Len(v)]

\* every occurrence of a key in d carries the same bits
UniformKeys(d) ==
    \A i, j \in DOMAIN d : KeyOf(d[i]) = KeyOf(d[j]) => to_bits(d[i][3]) = to_bits(d[j][3])

\* the call in progress repeats a call that succeeded, and has not failed
Repeating == again /\ result # "err"

\* C1 as claimed: a save that repeats the data of the successful save before it
\* returns false, rewrites no partition file and inserts nothing into the dirty
\* set, whatever the data
C1_IdempotentAnyData ==
    Repeating =>
        /\ \A n \in Names : fs[n] = fs0[n]
        /\ marked = {}
        /\ spc = "ret" => result = "false"

\* C1 as amended: the same, for data in which every occurrence of a dedup key
\* carries the same value bits
C1_IdempotentUniform ==
    (Repeating /\ UniformKeys(data)) =>
        /\ \A n \in Names : fs[n] = fs0[n]
        /\ marked = {}
        /\ spc = "ret" => result = "false"

\* a repeated call that found files written by the first one has returned false
C1_Witness ==
    /\ again
    /\ spc = "ret"
    /\ result = "false"
    /\ UniformKeys(data)
    /\ Len(data) = 2
    /\ KeyOf(data[1]) = KeyOf(data[2])
    /\ \E p \in Paths : Len(fs[p].rows) > 0

\* C2 as claimed: of the records of one call that share a key, only the last is
\* written: a path the call changed gained at most one row per key, with the
\* bits of the key's last occurrence in data
C2_OnlyLastPersisted ==
    \A p \in changed :
        \A k \in Keys :
            LET added == ValuesFor(Added(p), k)
                given == ValuesFor(data, k)
            IN  added # <<>> => (Len(added) = 1 /\ to_bits(added[1]) = to_bits(Last(given)))

\* the occurrences of a key that differ in bits from the value before them,
\* starting from the bits `prev` (<<>> for none)
RECURSIVE Differing(_, _)
Differing(prev, values) ==
    IF values = <<>> THEN <<>>
    ELSE IF prev = to_bits(Head(values))
         THEN Differing(prev, Tail(values))
         ELSE <<Head(values)>> \o Differing(to_bits(Head(values)), Tail(values))

\* C2 as amended: of the records of one call that share a key, exactly those
\* are written, in order, whose bits differ from the occurrence before them
\* (the first: from the key's latest row in the file); the key's last row then
\* carries the bits of its last occurrence
C2_DifferingPersisted ==
    \A p \in changed :
        \A k \in Keys :
            LET before == ValuesFor(fs0[p].rows, k)
                added == ValuesFor(Added(p), k)
                given == ValuesFor(data, k)
                prev == IF before = <<>> THEN <<>> ELSE to_bits(Last(before))
            IN  /\ PathOf(PartitionOf(k[1])) = p => added = Differing(prev, given)
                /\ PathOf(PartitionOf(k[1])) # p => added = <<>>
                /\ added # <<>> => to_bits(Last(added)) = to_bits(Last(given))

\* one call carried a key twice with different bits and both rows are on disk
C2_Witness ==
    \E p \in changed :
        /\ Len(data) = 2
        /\ KeyOf(data[1]) = KeyOf(data[2])
        /\ to_bits(data[1][3]) # to_bits(data[2][3])
        /\ Len(Added(p)) = 2
        /\ Added(p)[1][3] = data[1][3]
        /\ Added(p)[2][3] = data[2][3]

\* C3: a path the call changed holds the rows it held before as a prefix, each
\* with the same start, end, value and scraped_at (null where the old file has
\* no such column), and every row after that prefix has a scraped_at
C3_AppendOnly ==
    \A p \in changed :
        LET old == LogicalRows(fs0[p])
            new == fs[p].rows
        IN  /\ Len(old) < Len(new)
            /\ SubSeq(new, 1, Len(old)) = old
            /\ \A i \in (Len(old) + 1)..Len(new) : new[i][4] # None

\* a file without the scraped_at column was rewritten with a new row
C3_Witness ==
    \E p \in changed :
        /\ fs0[p].st = "ok"
        /\ fs0[p].cols = 3
        /\ Len(fs[p].rows) = 3
        /\ fs[p].rows[1][4] = None
        /\ fs[p].rows[2][4] = None
        /\ fs[p].rows[3][4] # None

\* the bits of the latest row with key k in a sequence of rows, <<>> for none
MostRecentBits(rows, k) ==
    LET is == {i \in DOMAIN rows : KeyOf(rows[i]) = k}
    IN  IF is = {} THEN <<>>
        ELSE to_bits(rows[CHOOSE i \in is : \A j \in is : j <= i][3])

\* the records appended when each is compared, in order, with the latest row
\* of its key among the rows so far (file rows, then rows appended before it)
RECURSIVE ExpectedAppends(_, _)
ExpectedAppends(sofar, group) ==
    IF group = <<>> THEN <<>>
    ELSE LET r == Head(group)
         IN  IF MostRecentBits(sofar, KeyOf(r)) # to_bits(r[3])
             THEN <<<<r[1], r[2], r[3]>>>> \o ExpectedAppends(Append(sofar, r), Tail(group))
             ELSE ExpectedAppends(sofar, Tail(group))

Merged == spc \in {"create", "write", "close", "rename"}
Unchanged == spc = "loop" /\ cur # <<>> /\ cur \notin changed

\* C4: a merge appends exactly the records whose key has no row so far or
\* whose latest row so far (file order, then this call's appends) differs in bits
C4_ChangeDetection ==
    (Merged \/ Unchanged) =>
        LET group == GroupOf(data, SubSeq(cur, 3, 5))
        IN  [i \in DOMAIN newRows |-> <<newRows[i][1], newRows[i][2], newRows[i][3]>>]
               = ExpectedAppends(fs[cur].rows, group)

\* an earlier row of the key has the incoming bits, its latest row differs, and
\* the record is appended
C4_Witness ==
    /\ Merged
    /\ Len(fs[cur].rows) = 2
    /\ Len(data) = 1
    /\ KeyOf(fs[cur].rows[1]) = KeyOf(data[1])
    /\ KeyOf(fs[cur].rows[2]) = KeyOf(data[1])
    /\ fs[cur].rows[1][3] = NegZero
    /\ fs[cur].rows[2][3] = PosZero
    /\ data[1][3] = NegZero
    /\ Len(newRows) = 1

\* the complete content a path has once the call in progress has merged its
\* group: the old rows, then the appended rows
NewContent(p) ==
    /\ fs[p].st = "ok"
    /\ fs[p].cols = 4
    /\ Len(fs[p].rows) > Len(fs0[p].rows)
    /\ SubSeq(fs[p].rows, 1, Len(fs0[p].rows)) = LogicalRows(fs0[p])
    /\ [i \in DOMAIN Added(p) |-> <<Added(p)[i][1], Added(p)[i][2], Added(p)[i][3]>>]
          = ExpectedAppends(fs0[p].rows, GroupOf(data, SubSeq(p, 3, 5)))

\* C5: at every step of a call a partition file holds its content of before
\* the call or its complete new content, and after a failure of the temp-file
\* creation, write, close or rename the target is as before and save errs
C5_AtomicCommit ==
    /\ \A p \in Paths : fs[p] = fs0[p] \/ (p \in changed /\ NewContent(p))
    /\ spc \in {"write", "close", "rename"} => fs[cur] = fs0[cur]
    /\ failStep \in {"create", "write", "close", "rename"} =>
          /\ result = "err"
          /\ fs[cur] = fs0[cur]

\* the rename failed over an existing target, which is as it was
C5_Witness ==
    /\ spc = "ret"
    /\ failStep = "rename"
    /\ fs0[cur].st = "ok"
    /\ fs[cur] = fs0[cur]
    /\ fs[tmp_path(cur)].st = "ok"

\* C6: a partition file that exists and does not open or decode makes the
\* merge fail with the file and its directory entry untouched, nothing
\* written, no temporary file created and the path not marked
C6_DecodeFailure ==
    /\ (cur # <<>> /\ fs0[cur].st \notin {"absent", "ok"}) =>
          /\ spc \in {"mkdir", "read", "ret"}
          /\ spc = "ret" => result = "err"
          /\ fs[cur] = fs0[cur]
          /\ fs[tmp_path(cur)] = fs0[tmp_path(cur)]
          /\ cur \notin changed \cup marked \cup dirty
    /\ failStep = "read" =>
          /\ spc = "ret" /\ result = "err"
          /\ fs[cur] = fs0[cur]
          /\ fs[tmp_path(cur)] = fs0[tmp_path(cur)]
          /\ cur \notin changed \cup marked

\* the read of a corrupt file failed the call
C6_Witness ==
    /\ spc = "ret"
    /\ failStep = "read"
    /\ fs[cur] = Corrupt
    /\ data # <<>>

\* C7: a failed merge ends the call with the error; the groups merged before
\* it stay committed and marked, the failed one and those not yet reached are
\* neither written nor marked
C7_NoCrossPartitionAtomicity ==
    /\ failStep # "" => (spc = "ret" /\ result = "err")
    /\ (spc = "ret" /\ result = "err") =>
          /\ \A p \in changed :
                /\ NewContent(p)
                /\ tracking => (p \in marked /\ p \in dirty)
          /\ cur \notin changed \cup marked
          /\ fs[cur] = fs0[cur]
          /\ \A g \in pending :
                /\ fs[PathOf(g)] = fs0[PathOf(g)]
                /\ PathOf(g) \notin changed \cup marked

\* the second group of a call failed after the first was committed and marked
C7_Witness ==
    /\ spc = "ret"
    /\ result = "err"
    /\ tracking
    /\ changed # {}
    /\ changed \subseteq dirty
    /\ cur \notin dirty

\* C8: a successful call marked exactly the paths whose merge returned true
\* if the store has a dirty set, and returned true exactly if some merge did;
\* a store without a dirty set touches none; files and result are those the
\* merge of each group gives, with or without a dirty set
C8_DirtyMatchesCommits ==
    /\ marked \subseteq changed
    /\ ~tracking => (dirty = {} /\ marked = {} /\ lock = "free")
    /\ (spc = "ret" /\ result # "err") =>
          /\ changed = {p \in Paths : fs[p] # fs0[p]}
          /\ marked = (IF tracking THEN changed ELSE {})
          /\ tracking => changed \subseteq dirty
          /\ (result = "true") = (changed # {})
          /\ \A p \in Paths :
                LET new == MergeLoop(LatestValues(fs0[p].rows),
                                     GroupOf(data, SubSeq(p, 3, 5)), calls)
                IN  fs[p] = IF new = <<>> THEN fs0[p]
                            ELSE Parquet(LogicalRows(fs0[p]) \o new)

\* a call over two partitions changed one of them and marked only that one
C8_Witness ==
    /\ spc = "ret"
    /\ result = "true"
    /\ tracking
    /\ Cardinality(GroupKeys(data)) = 2
    /\ Cardinality(changed) = 1
    /\ marked = changed

\* the calendar date in Vienna of an instant of the evening of 2025-03-30 (UTC),
\* when Vienna is two hours ahead: the 30th before 22:00Z, the 31st from then on
CivilDay(t) == IF t < 44 THEN <<2025, 3, 30>> ELSE <<2025, 3, 31>>

\* C14: every row of a partition file starts on the Vienna calendar day the
\* file is named for, whatever its end and value; after a successful call each
\* record has a row with its key and value in the file of the Vienna day of
\* its start and no row with its key in any other file; a record starting at
\* 23:30Z of 2025-03-30 is in the file of 2025-03-31
C14_CivilDayPartitioning ==
    /\ \A p \in Paths : \A i \in DOMAIN fs[p].rows :
          SubSeq(p, 3, 5) = CivilDay(fs[p].rows[i][1])
    /\ (spc = "ret" /\ result # "err") =>
          \A j \in DOMAIN data :
              LET r == data[j]
                  home == <<"data", "ds">> \o CivilDay(r[1]) \o <<"data.parquet">>
              IN  /\ home \in Paths
                  /\ \E i \in DOMAIN fs[home].rows :
                        /\ KeyOf(fs[home].rows[i]) = KeyOf(r)
                        /\ fs[home].rows[i][3] = r[3]
                  /\ \A p \in Paths \ {home} :
                        \A i \in DOMAIN fs[p].rows : KeyOf(fs[p].rows[i]) # KeyOf(r)
                  /\ r[1] = 47 => home = <<"data", "ds", 2025, 3, 31, "data.parquet">>

\* one call stored a record that starts on the 30th and ends on the 31st
\* (Vienna) and a record that starts at 23:30Z, each in the file of its start
C14_Witness ==
    /\ spc = "ret"
    /\ result = "true"
    /\ Len(data) = 2
    /\ data[1][1] = 47
    /\ data[2][1] = 43
    /\ CivilDay(data[2][2]) # CivilDay(data[2][1])
    /\ Cardinality(changed) = 2
    /\ fs[<<"data", "ds", 2025, 3, 31, "data.parquet">>].rows = <<<<47, 48, QNaN, Some(calls)>>>>

\* C18: a merge that finds no record changed leaves the partition file, its
\* temporary file and its directory as they were; the temporary file is only
\* created when a record is new; a call that returns false changed no file
\* and no directory
C18_UnchangedUntouched ==
    /\ Unchanged =>
          /\ fs[cur] = fs0[cur]
          /\ fs[tmp_path(cur)] = fs0[tmp_path(cur)]
          /\ parent(cur) \in dirs0
    /\ spc \in {"create", "write", "close", "rename"} => newRows # <<>>
    /\ (spc = "ret" /\ result = "false") => (fs = fs0 /\ dirs = dirs0)

\* a merge over an existing file found nothing new
C18_Witness ==
    /\ Unchanged
    /\ fs[cur].st = "ok"
    /\ GroupOf(data, SubSeq(cur, 3, 5)) # <<>>
    /\ ~exists(tmp_path(cur))

\* C19 as claimed: after a call failed at the directory creation, the read,
\* the write of the temporary file or the rename, the partition directory
\* holds no temporary file and the target is as it was before the call
C19_NoPartialState ==
    failStep \in {"mkdir", "read", "write", "rename"} =>
        /\ ~exists(tmp_path(cur))
        /\ fs[cur] = fs0[cur]

\* consecutive values differ in their bits
ChangesOnly(values) ==
    \A i \in DOMAIN values : i > 1 => to_bits(values[i]) # to_bits(values[i - 1])

\* C20: in every partition file, the rows of one key taken in file order differ
\* in value bits from one row to the next
C20_HistoryOfChanges ==
    \A p \in Paths : \A k \in Keys : ChangesOnly(ValuesFor(fs[p].rows, k))

\* a file written by the store alone holds four rows of one key, the value
\* having gone back and forth
C20_Witness ==
    \E p \in Paths :
        /\ Len(fs[p].rows) = 4
        /\ \A i \in 1..4 : fs[p].rows[i][4] # None
        /\ \A i \in 1..4 : KeyOf(fs[p].rows[i]) = <<43, 46>>
        /\ to_bits(fs[p].rows[1][3]) = to_bits(fs[p].rows[3][3])

\* C25: after a call that succeeded, for every key of `data` the last row of
\* that key in its partition file carries the bits of the key's last
\* occurrence in `data`, whether the call appended rows for the key or not
C25_LatestIsCurrent ==
    (spc = "ret" /\ result # "err") =>
        \A j \in DOMAIN data :
            LET k == KeyOf(data[j])
                p == PathOf(PartitionOf(k[1]))
            IN  MostRecentBits(fs[p].rows, k) = to_bits(Last(ValuesFor(data, k)))

\* a call carried a key twice, first with new bits and then with the bits the
\* file had last, and both were appended
C25_Witness ==
    /\ spc = "ret"
    /\ result = "true"
    /\ Len(data) = 2
    /\ KeyOf(data[1]) = KeyOf(data[2])
    /\ to_bits(data[1][3]) # to_bits(data[2][3])
    /\ LET p == PathOf(PartitionOf(data[1][1]))
       IN  /\ MostRecentBits(fs0[p].rows, KeyOf(data[1])) = to_bits(data[2][3])
           /\ Len(fs[p].rows) = Len(fs0[p].rows) + 2

----------------------------------------------------------------------------
(* Properties of the store with the upload loop, checked under SpecUp *)

NoDup(v) == \A i, j \in DOMAIN v : v[i] = v[j] => i = j

\* C9: a path the store inserted stays in the dirty set or in the drained
\* batch until its upload is attempted, whatever the uploader does meanwhile;
\* a batch holds no path twice, and no path is both waiting and failed
C9_NoLostMarks ==
    /\ owed \subseteq dirty \cup Elems(batch)
    /\ NoDup(batch)
    /\ NoDup(failed)
    /\ Elems(batch) \cap Elems(failed) = {}
    /\ upc \in {"read", "put"} => ucur \notin Elems(batch) \cup Elems(failed)

\* the store inserted a path while an upload was in progress, and it is kept
C9_Witness ==
    /\ upc = "put"
    /\ \E p \in owed : p \in dirty /\ p \notin Elems(batch)

\* C10: the body of an upload is the content of the file when the uploader
\* read it: it equals the file, and so does what is sent, unless the file was
\* replaced after the read
C10_LatestStateUpload ==
    (upc = "put" /\ ~lateCommit) =>
        /\ body = fs[ucur]
        /\ SendBody(body, fs[ucur]) = fs[ucur]

\* a path was marked, rewritten before the drain, and its upload carries the
\* rewritten content, not the content of when it was marked
C10_Witness ==
    /\ upc = "put"
    /\ ucur \in taken
    /\ body = fs[ucur]
    /\ body # markSnap[ucur]
    /\ Len(body.rows) = 2


\* the upload of p is started
Attempt(p) == upc = "read" /\ ucur = p

\* C11: the failed paths are put back into the dirty set once the batch is
\* done, and the loop sleeps again; a path that failed has its upload started
\* again, each time it fails; every path of a batch has its upload started
\* whatever happens to the others; the loop always comes back to its sleep
C11_UnboundedRetry ==
    /\ [](upc = "reinsert" => (batch = <<>> /\ failed # <<>>))
    /\ [][(upc = "reinsert" /\ upc' # "reinsert") =>
              (Elems(failed) \subseteq dirty' /\ upc' = "sleep")]_vars
    /\ \A p \in Paths : (p \in Elems(failed) \cup Elems(batch)) ~> Attempt(p)
    /\ []<>(upc = "sleep")

\* the upload of a path that failed in the batch before is started again,
\* after another path of that batch was uploaded
C11_Witness ==
    /\ upc = "read"
    /\ ucur \in retry
    /\ \E k \in DOMAIN remote : remote[k] # Absent

\* C12: a path put back after a failed upload is in the dirty set until the
\* next drain, that drain yields it, and no path is yielded or has its upload
\* started twice in one batch, also when the store marked the path again
\* while the failed batch was uploading
C12_RetryOnce ==
    /\ NoDup(attempted \o batch)
    /\ upc \in {"sleep", "drain"} => retry \subseteq dirty
    /\ upc \in {"next", "read", "put", "reinsert"} =>
          retry \subseteq Elems(attempted) \cup Elems(batch)
    /\ dup \subseteq retry
    /\ upc \in {"read", "put"} => (attempted # <<>> /\ Last(attempted) = ucur)

\* a path that failed and was marked again meanwhile had its upload started in
\* the next batch, which is done
C12_Witness ==
    /\ upc = "next"
    /\ batch = <<>>
    /\ dup # {}
    /\ dup \subseteq Elems(attempted)

\* remote prefixes a configuration can name (without the trailing slash)
Prefixes == {"data", "raw"}

\* the key verify_uploads looks for: prefix, base folder, partition path
verify_key(prefix, base_folder, ymd) ==
    <<prefix, base_folder, ymd[1], ymd[2], ymd[3], "data.parquet">>

\* C15 as claimed: whatever remote prefix is configured, the key of an upload
\* is that prefix followed by the path below the local root, which is the key
\* verify_uploads looks for; different paths have different keys
C15_RemoteKey ==
    \A prefix \in Prefixes :
        upc = "put" =>
            /\ s3_key(ucur) = <<prefix>> \o Tail(ucur)
            /\ s3_key(ucur) = verify_key(prefix, dataset, SubSeq(ucur, 3, 5))
            /\ \A p \in Paths : s3_key(p) = s3_key(ucur) => p = ucur

\* C16: the uploader holds the lock exactly in its drain and its re-insert,
\* never in its sleep or during an upload; the store holds it exactly in its
\* insert; a store that waits for the lock waits for a drain or a re-insert
\* only, and gets the lock
C16_LockOnlyForSetOps ==
    /\ []((lock = "uploader") <=> (upc \in {"drain", "reinsert"}))
    /\ []((lock = "store") <=> (spc = "insert"))
    /\ []((spc = "lock" /\ lock # "free") => upc \in {"drain", "reinsert"})
    /\ (spc = "lock") ~> (spc = "insert")

\* the store takes the lock while an upload is in progress
C16_Witness ==
    /\ spc = "insert"
    /\ lock = "store"
    /\ upc = "put"


\* the file of p is not what the last successful upload of p stored
Unmirrored(p) == exists(p) /\ remote[s3_key(p)] # fs[p]

\* C21 as claimed: a partition file whose content differs from the content of
\* its last successful upload, or that was never uploaded, has its path in the
\* dirty set, in the drained batch not yet read, or among the failed paths
C21_PendingUpload ==
    \A p \in Paths :
        Unmirrored(p) => p \in dirty \cup Elems(batch) \cup Elems(failed)

\* C21 as amended: such a path is in the dirty set, in the batch, among the
\* failed paths, in the hand of the uploader whose upload of it has not
\* returned, or in the hand of the store between its rename and its insert
C21_PendingOrInHand ==
    \A p \in Paths :
        Unmirrored(p) =>
            \/ p \in dirty \cup Elems(batch) \cup Elems(failed)
            \/ upc \in {"read", "put"} /\ ucur = p
            \/ spc \in {"lock", "insert"} /\ cur = p

\* the store has committed a file and waits for the lock while the upload of
\* another file has failed and awaits its re-insert
C21_Witness ==
    /\ spc = "lock"
    /\ Unmirrored(cur)
    /\ cur \notin dirty \cup Elems(batch) \cup Elems(failed)
    /\ ucur # cur
    /\ \E q \in Elems(failed) : Unmirrored(q)

\* every partition file is what the bucket holds under its key
Mirrored == \A p \in Paths : exists(p) => remote[s3_key(p)] = fs[p]

\* C22 (under SpecUpMirror): when the store makes no more than its calls, the
\* upload loop keeps running and no upload fails for ever, then from some time
\* on the dirty set
\* is empty and every partition file (each one was marked when it was
\* committed) equals the object under its key
C22_EventualMirroring == <>[](dirty = {} /\ Mirrored)

\* the store is done, a file it committed twice is mirrored with all its rows
\* and nothing is pending
C22_Witness ==
    /\ spc = "idle"
    /\ fresh = budget
    /\ upc = "sleep"
    /\ dirty = {}
    /\ Mirrored
    /\ \E p \in Paths : Len(fs[p].rows) = 4

\* C24 as claimed: whatever commits happen while a path is uploaded, the
\* object stored for it is one complete version of the file: a complete
\* parquet file whose rows are the rows the target held at some time, never
\* a part of a file
C24_NoTornUpload ==
    \A p \in Paths :
        LET obj == remote[s3_key(p)]
        IN  obj # Absent =>
                /\ obj.st = "ok"
                /\ Len(obj.rows) <= Len(fs[p].rows)
                /\ obj = Parquet(SubSeq(fs[p].rows, 1, Len(obj.rows)))

----------------------------------------------------------------------------
(* Properties of the store, the upload loop and cleanup together, checked
   under SpecAll *)

\* C23 as claimed: whatever the interleaving of save, cleanup and the upload
\* loop, every path in the dirty set or in the batch of the uploader names a
\* partition file that exists
C23_DirtyPathsExist ==
    \A p \in dirty \cup Elems(batch) : exists(p)

----------------------------------------------------------------------------
(* Properties of cleanup, checked under SpecClean *)

\* a name is the prefix followed by decimal digits
Parses(name, prefix) ==
    /\ name[1] = prefix
    /\ name[2] # <<>>
    /\ \A i \in DOMAIN name[2] : IsDigit(name[2][i])

\* day=, month= and year= are the names of a path, of its parent and of its
\* grandparent
DateNamed(path) ==
    /\ Len(path) >= 3
    /\ Parses(path[Len(path)], "day=")
    /\ Parses(path[Len(path) - 1], "month=")
    /\ Parses(path[Len(path) - 2], "year=")

\* C13 as claimed: with T the Vienna date of the instant of the call, a
\* cleanup that returned Ok kept, with its file, every partition of a day from
\* T - retention_days on and removed, with its file, every partition of an
\* earlier day; no directory was removed for its date unless its name, its
\* parent's and its grandparent's are day=, month= and year= with a number
C13_RetentionBoundary ==
    /\ \A n \in removed : DateNamed(n)
    /\ (cpc = "done" /\ cresult = "ok") =>
          LET T == CivilDay(now)[3]
          IN  \A d \in Days :
                  tree0[DayDir(d)] = "dir" =>
                      IF d >= T - retention
                      THEN /\ tree[DayDir(d)] = "dir"
                           /\ tree[DataFile(DayDir(d))] = tree0[DataFile(DayDir(d))]
                      ELSE /\ tree[DayDir(d)] = "absent"
                           /\ tree[DataFile(DayDir(d))] = "absent"

\* the partitions cleanup_recursive is to remove: those of a day before the
\* Vienna date of its cutoff
ExpiredDays ==
    {DayDir(d) : d \in {x \in Days : /\ tree0[DayDir(x)] = "dir"
                                     /\ date_lt(<<2025, 3, x>>, cutoff_date(now, retention))}}

\* C17: at every point of a cleanup, whether it ends with Ok or with an error,
\* what is gone is below a partition of a day before the cutoff or is a
\* directory that was empty when it was removed; nothing else has changed;
\* remove_dir_all was called on such partitions only, and cleanup_recursive on
\* nothing below one of them
C17_CleanupFrame ==
    /\ \A n \in Nodes :
          tree[n] # tree0[n] =>
              /\ tree[n] = "absent"
              /\ \/ \E e \in ExpiredDays : Under(e, n)
                 \/ /\ tree0[n] = "dir"
                    /\ \A m \in Nodes : Under(n, m) => tree[m] = "absent"
                    /\ \A m \in Nodes :
                          (Under(n, m) /\ tree0[m] = "bytes") =>
                              \E e \in ExpiredDays : Under(e, m)
    /\ removed \subseteq ExpiredDays
    /\ \A r \in removed : \A n \in entered : Under(r, n) => n = r

\* a cleanup removed a partition and kept a later one, a day=28 that is not
\* below a year=, a day that is no number and a day the calendar does not have
C17_Witness ==
    /\ cpc = "done"
    /\ cresult = "ok"
    /\ removed # {}
    /\ \E d \in Days : tree[DataFile(DayDir(d))] = "bytes"
    /\ date_lt(<<2025, 3, 28>>, cutoff_date(now, retention))
    /\ tree[DataFile(ArchiveDay)] = "bytes"
    /\ tree[DataFile(BadDayDir)] = "bytes"
    /\ tree[DataFile(FebDay)] = "bytes"
    /\ tree[EmptyDir] = "absent"

====
